---- MODULE Spec2Model ----
(***************************************************************************)
(* Differential-drive robot control notebooks: odometry (get_robot_pose,   *)
(* get_robot_speeds), go-to-goal control (get_pose_error, pid_controller), *)
(* kinematics (wheel_speed_commands) and the wall-following behaviours.    *)
(*                                                                         *)
(* The notebooks keep their state in ambient variables of the kernel (x,   *)
(* y, phi, e_prev, e_acc, R, D, the gains, wl_d, wr_d); a cell calls one   *)
(* function and assigns what it returns.  One action models one such cell. *)
(* Each notebook runs in a kernel of its own, which holds the functions    *)
(* that notebook defines; a fourth kernel holds the two kinematics         *)
(* conversions together, as a robot controller uses them.                  *)
(*                                                                         *)
(* Numbers.  A Python float is modelled as an exact rational [n, d] in     *)
(* lowest terms with d > 0.  d = 0 marks the non-finite values float64     *)
(* arithmetic of NumPy produces on a division by zero: 1/0 is inf, -1/0 is *)
(* -inf, 0/0 is nan.  np.pi is a fixed rational, as it is in the code (the *)
(* double nearest to pi); here it is 3.1416.  The trigonometric functions  *)
(* are tabulated on the multiples of np.pi/4, where their values are known *)
(* (sqrt(2)/2 is taken as 0.707).                                          *)
(***************************************************************************)
EXTENDS Integers, Sequences, FiniteSets, TLC

VARIABLES
    loaded,   \* the functions defined in this kernel
    geom,     \* [R, D]: wheel radius and distance between the wheels (ambient)
    gains,    \* [kp, kd, ki] of the PID controller (ambient)
    pose,     \* [x, y, phi]: the robot pose kept by the odometry cell
    pid,      \* [e_prev, e_acc]: the PID state kept by the control cell
    cmd,      \* the last wheel command: [ok, u_d, w_d, wl_d, wr_d]
    call,     \* the last function call: [op, args, exc, ret]
    steps     \* number of cells run so far

vars == <<loaded, geom, gains, pose, pid, cmd, call, steps>>

MaxSteps == 2

----------------------------------------------------------------------------
(* Float arithmetic on rationals *)

Abs(i) == IF i < 0 THEN -i ELSE i

Sgn(i) == IF i < 0 THEN -1 ELSE IF i > 0 THEN 1 ELSE 0

RECURSIVE GCD(_, _)
GCD(a, b) == IF b = 0 THEN a ELSE GCD(b, a % b)

Q(n, d) ==
    LET g == GCD(Abs(n), Abs(d))
    IN  [n |-> Sgn(d) * (n \div g), d |-> Abs(d) \div g]

Num(i) == [n |-> i, d |-> 1]

Neg(a) == [n |-> -a.n, d |-> a.d]

Add(a, b) ==
    LET g == GCD(a.d, b.d)
        L == (a.d \div g) * b.d
    IN  Q(a.n * (L \div a.d) + b.n * (L \div b.d), L)

Sub(a, b) == Add(a, Neg(b))

Mul(a, b) ==
    LET g1 == GCD(Abs(a.n), b.d)
        g2 == GCD(Abs(b.n), a.d)
    IN  Q((a.n \div g1) * (b.n \div g2), (a.d \div g2) * (b.d \div g1))

\* a / b for b # 0
Div(a, b) == Mul(a, Q(b.d, b.n))

Lt(a, b) ==
    LET g == GCD(a.d, b.d)
    IN  a.n * (b.d \div g) < b.n * (a.d \div g)

Le(a, b) == ~Lt(b, a)

Ge(a, b) == ~Lt(a, b)

Gt(a, b) == Lt(b, a)

AbsQ(a) == [n |-> Abs(a.n), d |-> a.d]

Zero == Num(0)

\* inf (s = 1), -inf (s = -1) or nan (s = 0)
NonFinite(s) == [n |-> s, d |-> 0]

IsFinite(a) == a.d # 0

----------------------------------------------------------------------------
(* numpy *)

np_pi == Q(3927, 1250)

QuarterPi == Div(np_pi, Num(4))

TwoPi == Mul(Num(2), np_pi)

\* the angle k * np.pi/4
Angle(k) == Mul(Num(k), QuarterPi)

OnGrid(a) == Div(a, QuarterPi).d = 1

GridIndex(a) == Div(a, QuarterPi).n

HalfSqrt2 == Q(707, 1000)

np_cos(a) ==
    LET k == GridIndex(a) % 8
    IN  CASE k = 0 -> Num(1)
          [] k \in {1, 7} -> HalfSqrt2
          [] k \in {2, 6} -> Zero
          [] k \in {3, 5} -> Neg(HalfSqrt2)
          [] k = 4 -> Num(-1)

np_sin(a) ==
    LET k == GridIndex(a) % 8
    IN  CASE k \in {0, 4} -> Zero
          [] k \in {1, 3} -> HalfSqrt2
          [] k = 2 -> Num(1)
          [] k \in {5, 7} -> Neg(HalfSqrt2)
          [] k = 6 -> Num(-1)

\* The sign of the float np.sin(m * np.pi), whose real value is 0: np.pi is
\* a little less than pi, so sin(np.pi) > 0 > sin(-np.pi), sin(2*np.pi) < 0.
SinResidue(a) ==
    LET k == GridIndex(a)
        m == k \div 4
    IN  IF k % 4 # 0 THEN 0
        ELSE IF m % 2 = 1 THEN Sgn(m) ELSE -Sgn(m)

\* The directions np.arctan2 is tabulated on
Tabulated(y, x) == y.n = 0 \/ x.n = 0 \/ AbsQ(y) = AbsQ(x)

\* np.arctan2(y, x); sy is the sign of the float y where its real value is 0
ArcTan2(sy, y, x) ==
    LET ys == IF y.n # 0 THEN Sgn(y.n) ELSE sy
    IN  CASE y.n = 0 /\ x.n >= 0 -> Zero
          [] y.n = 0 /\ x.n < 0 -> IF ys < 0 THEN Neg(np_pi) ELSE np_pi
          [] y.n # 0 /\ x.n = 0 -> Angle(2 * ys)
          [] y.n # 0 /\ x.n > 0 /\ AbsQ(y) = AbsQ(x) -> Angle(ys)
          [] y.n # 0 /\ x.n < 0 /\ AbsQ(y) = AbsQ(x) -> Angle(3 * ys)

np_arctan2(y, x) == ArcTan2(0, y, x)

RECURSIVE ISqrtBetween(_, _, _)
ISqrtBetween(n, lo, hi) ==
    IF lo = hi THEN lo
    ELSE LET mid == (lo + hi + 1) \div 2
         IN  IF mid * mid <= n THEN ISqrtBetween(n, mid, hi)
             ELSE ISqrtBetween(n, lo, mid - 1)

\* np.sqrt, rounded down to four decimals (exact on squares of such numbers)
np_sqrt(r) == Q(ISqrtBetween(r.n * (100000000 \div r.d), 0, 46340), 10000)

----------------------------------------------------------------------------
(* The functions of the notebooks.  A function that can raise returns       *)
(* [exc, ret]; exc = "None" when it returns.  The parameter np says whether *)
(* the speeds or errors passed in are numpy.float64 scalars (as             *)
(* get_pose_error returns them) rather than Python floats: Python raises    *)
(* ZeroDivisionError on a division by zero, NumPy returns inf or nan.  A    *)
(* function that returns a tuple the caller unpacks by position returns a   *)
(* sequence; the others return their values by name.                        *)

Returned(r) == [exc |-> "None", ret |-> r]

Raised(e) == [exc |-> e, ret |-> <<>>]

\* wheel_speed_commands returning the pair in the order of its docstring
\* (right, left)
wheel_speed_commands_swapped(u_d, w_d, D, R, np) ==
    LET num_r == Add(Mul(Num(2), u_d), Mul(D, w_d))
        num_l == Sub(Mul(Num(2), u_d), Mul(D, w_d))
        den == Mul(Num(2), R)
    IN  IF den.n = 0
        THEN IF np
             THEN Returned(<<NonFinite(Sgn(num_r.n)), NonFinite(Sgn(num_l.n))>>)
             ELSE Raised("ZeroDivisionError")
        ELSE LET wr_d == Div(num_r, den)
                 wl_d == Div(num_l, den)
             IN  Returned(<<wr_d, wl_d>>)

wheel_speed_commands(u_d, w_d, D, R, np) ==
    LET num_r == Add(Mul(Num(2), u_d), Mul(D, w_d))
        num_l == Sub(Mul(Num(2), u_d), Mul(D, w_d))
        den == Mul(Num(2), R)
    IN  IF den.n = 0
        THEN IF np
             THEN Returned(<<NonFinite(Sgn(num_l.n)), NonFinite(Sgn(num_r.n))>>)
             ELSE Raised("ZeroDivisionError")
        ELSE LET wr_d == Div(num_r, den)
                 wl_d == Div(num_l, den)
             IN  Returned(<<wl_d, wr_d>>)

\* a / b in float64 arithmetic of NumPy, where a division by zero returns
\* inf, -inf or nan and these propagate
np_divide(a, b) ==
    IF ~IsFinite(a)
    THEN IF b.n = 0 THEN a ELSE NonFinite(a.n * Sgn(b.n))
    ELSE IF b.n = 0 THEN NonFinite(Sgn(a.n)) ELSE Div(a, b)

\* get_wheels_speed refusing delta_t <= 0 and pulses_per_turn <= 0
get_wheels_speed_checked(encoderValues, oldEncoderValues, pulses_per_turn, delta_t, np) ==
    LET ang_diff_l == np_divide(Mul(TwoPi, Num(encoderValues[1] - oldEncoderValues[1])),
                                Num(pulses_per_turn))
        ang_diff_r == np_divide(Mul(TwoPi, Num(encoderValues[2] - oldEncoderValues[2])),
                                Num(pulses_per_turn))
        wl == np_divide(ang_diff_l, delta_t)
        wr == np_divide(ang_diff_r, delta_t)
    IN  IF pulses_per_turn <= 0 \/ Le(delta_t, Zero)
        THEN Raised("InvalidTimeStep")
        ELSE Returned(<<wl, wr>>)

\* get_wheels_speed reading the left encoder at index 1 and the right at 0
get_wheels_speed_swapped(encoderValues, oldEncoderValues, pulses_per_turn, delta_t, np) ==
    LET ang_diff_l == np_divide(Mul(TwoPi, Num(encoderValues[2] - oldEncoderValues[2])),
                                Num(pulses_per_turn))
        ang_diff_r == np_divide(Mul(TwoPi, Num(encoderValues[1] - oldEncoderValues[1])),
                                Num(pulses_per_turn))
        wl == np_divide(ang_diff_l, delta_t)
        wr == np_divide(ang_diff_r, delta_t)
    IN  IF ~np /\ (pulses_per_turn = 0 \/ delta_t.n = 0)
        THEN Raised("ZeroDivisionError")
        ELSE Returned(<<wl, wr>>)

\* The encoder lists are indexed from 1 here: encoderValues[1] is the left
\* encoder (index 0 of the list), encoderValues[2] the right.  np says that
\* the counts are NumPy integers (an array of readings), not Python ints.
get_wheels_speed(encoderValues, oldEncoderValues, pulses_per_turn, delta_t, np) ==
    LET ang_diff_l == np_divide(Mul(TwoPi, Num(encoderValues[1] - oldEncoderValues[1])),
                                Num(pulses_per_turn))
        ang_diff_r == np_divide(Mul(TwoPi, Num(encoderValues[2] - oldEncoderValues[2])),
                                Num(pulses_per_turn))
        wl == np_divide(ang_diff_l, delta_t)
        wr == np_divide(ang_diff_r, delta_t)
    IN  IF ~np /\ (pulses_per_turn = 0 \/ delta_t.n = 0)
        THEN Raised("ZeroDivisionError")
        ELSE Returned(<<wl, wr>>)

\* get_robot_speeds refusing a non-positive wheel radius or wheel distance
get_robot_speeds_checked(wl, wr, R, D) ==
    IF Le(R, Zero) \/ Le(D, Zero) THEN Raised("InvalidGeometry")
    ELSE Returned([u |-> Mul(Div(R, Num(2)), Add(wr, wl)),
                   w |-> Mul(Div(R, D), Sub(wr, wl))])

\* get_robot_speeds with the wheels transposed in the angular speed
get_robot_speeds_swapped(wl, wr, R, D) ==
    IF D.n = 0 THEN Raised("ZeroDivisionError")
    ELSE Returned([u |-> Mul(Div(R, Num(2)), Add(wr, wl)),
                   w |-> Mul(Div(R, D), Sub(wl, wr))])

get_robot_speeds(wl, wr, R, D) ==
    IF D.n = 0 THEN Raised("ZeroDivisionError")
    ELSE Returned([u |-> Mul(Div(R, Num(2)), Add(wr, wl)),
                   w |-> Mul(Div(R, D), Sub(wr, wl))])

\* get_robot_pose wrapping only above np.pi (phi > np.pi), so that it keeps np.pi
get_robot_pose_gt(u, w, x_old, y_old, phi_old, delta_t) ==
    LET delta_phi == Mul(w, delta_t)
        phi0 == Add(phi_old, delta_phi)
        phi == IF Gt(phi0, np_pi) THEN Sub(phi0, TwoPi)
               ELSE IF Lt(phi0, Neg(np_pi)) THEN Add(phi0, TwoPi)
               ELSE phi0
        delta_x == Mul(Mul(u, np_cos(phi)), delta_t)
        delta_y == Mul(Mul(u, np_sin(phi)), delta_t)
    IN  [x |-> Add(x_old, delta_x), y |-> Add(y_old, delta_y), phi |-> phi]

\* get_robot_pose skipping the update, and keeping the prior pose, when
\* delta_t <= 0
get_robot_pose_skip(u, w, x_old, y_old, phi_old, delta_t) ==
    LET delta_phi == Mul(w, delta_t)
        phi0 == Add(phi_old, delta_phi)
        phi == IF Ge(phi0, np_pi) THEN Sub(phi0, TwoPi)
               ELSE IF Lt(phi0, Neg(np_pi)) THEN Add(phi0, TwoPi)
               ELSE phi0
        delta_x == Mul(Mul(u, np_cos(phi)), delta_t)
        delta_y == Mul(Mul(u, np_sin(phi)), delta_t)
    IN  IF Le(delta_t, Zero) THEN [x |-> x_old, y |-> y_old, phi |-> phi_old]
        ELSE [x |-> Add(x_old, delta_x), y |-> Add(y_old, delta_y), phi |-> phi]

\* get_robot_pose moving along the prior heading (plain forward Euler)
get_robot_pose_prior(u, w, x_old, y_old, phi_old, delta_t) ==
    LET delta_phi == Mul(w, delta_t)
        phi0 == Add(phi_old, delta_phi)
        phi == IF Ge(phi0, np_pi) THEN Sub(phi0, TwoPi)
               ELSE IF Lt(phi0, Neg(np_pi)) THEN Add(phi0, TwoPi)
               ELSE phi0
        delta_x == Mul(Mul(u, np_cos(phi_old)), delta_t)
        delta_y == Mul(Mul(u, np_sin(phi_old)), delta_t)
    IN  [x |-> Add(x_old, delta_x), y |-> Add(y_old, delta_y), phi |-> phi]

\* get_robot_pose wrapping at -np.pi too (phi <= -np.pi), so that it sends
\* -np.pi to np.pi
get_robot_pose_le(u, w, x_old, y_old, phi_old, delta_t) ==
    LET delta_phi == Mul(w, delta_t)
        phi0 == Add(phi_old, delta_phi)
        phi == IF Ge(phi0, np_pi) THEN Sub(phi0, TwoPi)
               ELSE IF Le(phi0, Neg(np_pi)) THEN Add(phi0, TwoPi)
               ELSE phi0
        delta_x == Mul(Mul(u, np_cos(phi)), delta_t)
        delta_y == Mul(Mul(u, np_sin(phi)), delta_t)
    IN  [x |-> Add(x_old, delta_x), y |-> Add(y_old, delta_y), phi |-> phi]

get_robot_pose(u, w, x_old, y_old, phi_old, delta_t) ==
    LET delta_phi == Mul(w, delta_t)
        phi0 == Add(phi_old, delta_phi)
        phi == IF Ge(phi0, np_pi) THEN Sub(phi0, TwoPi)
               ELSE IF Lt(phi0, Neg(np_pi)) THEN Add(phi0, TwoPi)
               ELSE phi0
        delta_x == Mul(Mul(u, np_cos(phi)), delta_t)
        delta_y == Mul(Mul(u, np_sin(phi)), delta_t)
    IN  [x |-> Add(x_old, delta_x), y |-> Add(y_old, delta_y), phi |-> phi]

\* get_pose_error with the orientation error taken as actual - desired
get_pose_error_swapped(xd, yd, x, y, phi) ==
    LET x_err == Sub(xd, x)
        y_err == Sub(yd, y)
        dist_err == np_sqrt(Add(Mul(x_err, x_err), Mul(y_err, y_err)))
        phi_d == np_arctan2(y_err, x_err)
        phi_err == Sub(phi, phi_d)
        phi_err_correct ==
            ArcTan2(SinResidue(phi_err), np_sin(phi_err), np_cos(phi_err))
    IN  [dist_err |-> dist_err, phi_err |-> phi_err_correct]

\* get_pose_error returning the orientation error as it is, not folded
get_pose_error_unfolded(xd, yd, x, y, phi) ==
    LET x_err == Sub(xd, x)
        y_err == Sub(yd, y)
        dist_err == np_sqrt(Add(Mul(x_err, x_err), Mul(y_err, y_err)))
        phi_d == np_arctan2(y_err, x_err)
        phi_err == Sub(phi_d, phi)
    IN  [dist_err |-> dist_err, phi_err |-> phi_err]

\* get_pose_error with the distance taken along the axes (|x_err| + |y_err|)
get_pose_error_manhattan(xd, yd, x, y, phi) ==
    LET x_err == Sub(xd, x)
        y_err == Sub(yd, y)
        dist_err == Add(AbsQ(x_err), AbsQ(y_err))
        phi_d == np_arctan2(y_err, x_err)
        phi_err == Sub(phi_d, phi)
        phi_err_correct ==
            ArcTan2(SinResidue(phi_err), np_sin(phi_err), np_cos(phi_err))
    IN  [dist_err |-> dist_err, phi_err |-> phi_err_correct]

get_pose_error(xd, yd, x, y, phi) ==
    LET x_err == Sub(xd, x)
        y_err == Sub(yd, y)
        dist_err == np_sqrt(Add(Mul(x_err, x_err), Mul(y_err, y_err)))
        phi_d == np_arctan2(y_err, x_err)
        phi_err == Sub(phi_d, phi)
        phi_err_correct ==
            ArcTan2(SinResidue(phi_err), np_sin(phi_err), np_cos(phi_err))
    IN  [dist_err |-> dist_err, phi_err |-> phi_err_correct]

\* pid_controller refusing delta_t <= 0
pid_controller_checked(e, e_prev, e_acc, delta_t, kp, kd, ki, np) ==
    LET P == Mul(kp, e)
        I == Add(e_acc, Mul(Mul(ki, e), delta_t))
        num == Mul(kd, Sub(e, e_prev))
    IN  IF Le(delta_t, Zero) THEN Raised("InvalidTimeStep")
        ELSE Returned([output |-> Add(Add(P, I), Div(num, delta_t)),
                       e_prev |-> e, e_acc |-> I])

\* pid_controller with the integral term of the output taken before the
\* current error is accumulated
pid_controller_stale(e, e_prev, e_acc, delta_t, kp, kd, ki, np) ==
    LET P == Mul(kp, e)
        I == Add(e_acc, Mul(Mul(ki, e), delta_t))
        num == Mul(kd, Sub(e, e_prev))
    IN  IF delta_t.n = 0
        THEN IF np
             THEN Returned([output |-> NonFinite(Sgn(num.n)),
                            e_prev |-> e, e_acc |-> I])
             ELSE Raised("ZeroDivisionError")
        ELSE Returned([output |-> Add(Add(P, e_acc), Div(num, delta_t)),
                       e_prev |-> e, e_acc |-> I])

\* pid_controller with an anti-windup clamp of the integral term at 0.002
pid_controller_clamped(e, e_prev, e_acc, delta_t, kp, kd, ki, np) ==
    LET P == Mul(kp, e)
        I0 == Add(e_acc, Mul(Mul(ki, e), delta_t))
        I == IF Gt(I0, Q(2, 1000)) THEN Q(2, 1000)
             ELSE IF Lt(I0, Q(-2, 1000)) THEN Q(-2, 1000) ELSE I0
        num == Mul(kd, Sub(e, e_prev))
    IN  IF delta_t.n = 0
        THEN IF np
             THEN Returned([output |-> NonFinite(Sgn(num.n)),
                            e_prev |-> e, e_acc |-> I])
             ELSE Raised("ZeroDivisionError")
        ELSE Returned([output |-> Add(Add(P, I), Div(num, delta_t)),
                       e_prev |-> e, e_acc |-> I])

\* pid_controller accumulating ki*delta_t, the error left out of the
\* integral term
pid_controller_noerr(e, e_prev, e_acc, delta_t, kp, kd, ki, np) ==
    LET P == Mul(kp, e)
        I == Add(e_acc, Mul(ki, delta_t))
        num == Mul(kd, Sub(e, e_prev))
    IN  IF delta_t.n = 0
        THEN IF np
             THEN Returned([output |-> NonFinite(Sgn(num.n)),
                            e_prev |-> e, e_acc |-> I])
             ELSE Raised("ZeroDivisionError")
        ELSE Returned([output |-> Add(Add(P, I), Div(num, delta_t)),
                       e_prev |-> e, e_acc |-> I])

\* pid_controller returning the previous error it was given, the current
\* error not stored
pid_controller_keeping(e, e_prev, e_acc, delta_t, kp, kd, ki, np) ==
    LET P == Mul(kp, e)
        I == Add(e_acc, Mul(Mul(ki, e), delta_t))
        num == Mul(kd, Sub(e, e_prev))
    IN  IF delta_t.n = 0
        THEN IF np
             THEN Returned([output |-> NonFinite(Sgn(num.n)),
                            e_prev |-> e_prev, e_acc |-> I])
             ELSE Raised("ZeroDivisionError")
        ELSE Returned([output |-> Add(Add(P, I), Div(num, delta_t)),
                       e_prev |-> e_prev, e_acc |-> I])

pid_controller(e, e_prev, e_acc, delta_t, kp, kd, ki, np) ==
    LET P == Mul(kp, e)
        I == Add(e_acc, Mul(Mul(ki, e), delta_t))
        num == Mul(kd, Sub(e, e_prev))
    IN  IF delta_t.n = 0
        THEN IF np
             THEN Returned([output |-> NonFinite(Sgn(num.n)),
                            e_prev |-> e, e_acc |-> I])
             ELSE Raised("ZeroDivisionError")
        ELSE Returned([output |-> Add(Add(P, I), Div(num, delta_t)),
                       e_prev |-> e, e_acc |-> I])

\* d_max is 0.25 in the first version of the behaviour and 0.50 in the later
d_min == Q(5, 100)

u_max == Q(1, 2)

\* follow_wall_to_left_obst moving only beyond d_min (d > d_min)
follow_wall_to_left_obst_strict(kp, d_l, d_desired, d, d_max) ==
    [u_ref |-> IF Gt(d, d_min) THEN Div(Mul(u_max, d), d_max) ELSE Zero,
     w_ref |-> Mul(kp, Sub(d_l, d_desired))]

\* follow_wall_to_left_obst issuing no angular command while it is stopped
follow_wall_to_left_obst_halted(kp, d_l, d_desired, d, d_max) ==
    [u_ref |-> IF Ge(d, d_min) THEN Div(Mul(u_max, d), d_max) ELSE Zero,
     w_ref |-> IF Ge(d, d_min) THEN Mul(kp, Sub(d_l, d_desired)) ELSE Zero]

follow_wall_to_left_obst(kp, d_l, d_desired, d, d_max) ==
    [u_ref |-> IF Ge(d, d_min) THEN Div(Mul(u_max, d), d_max) ELSE Zero,
     w_ref |-> Mul(kp, Sub(d_l, d_desired))]

\* follow_wall_to_left turning away from the desired distance
follow_wall_to_left_reversed(kp, d_l, d_desired) ==
    [u_ref |-> Q(1, 2), w_ref |-> Mul(kp, Sub(d_desired, d_l))]

follow_wall_to_left(kp, d_l, d_desired) ==
    [u_ref |-> Q(1, 2), w_ref |-> Mul(kp, Sub(d_l, d_desired))]

\* improved_follow_wall_to_left_obst slowing down, not stopping, below d_min
improved_follow_wall_to_left_obst_unguarded(kp, kp2, d_fl, d_rl, d_desired, d, d_max) ==
    LET d_l == Div(Add(d_fl, d_rl), Num(2))
    IN  [u_ref |-> Div(Mul(u_max, d), d_max),
         w_ref |-> Add(Mul(kp, Sub(d_l, d_desired)), Mul(kp2, Sub(d_fl, d_rl)))]

\* improved_follow_wall_to_left_obst with the one gain kp on both terms
improved_follow_wall_to_left_obst_folded(kp, kp2, d_fl, d_rl, d_desired, d, d_max) ==
    LET d_l == Div(Add(d_fl, d_rl), Num(2))
    IN  [u_ref |-> IF Ge(d, d_min) THEN Div(Mul(u_max, d), d_max) ELSE Zero,
         w_ref |-> Add(Mul(kp, Sub(d_l, d_desired)), Mul(kp, Sub(d_fl, d_rl)))]

improved_follow_wall_to_left_obst(kp, kp2, d_fl, d_rl, d_desired, d, d_max) ==
    LET d_l == Div(Add(d_fl, d_rl), Num(2))
    IN  [u_ref |-> IF Ge(d, d_min) THEN Div(Mul(u_max, d), d_max) ELSE Zero,
         w_ref |-> Add(Mul(kp, Sub(d_l, d_desired)), Mul(kp2, Sub(d_fl, d_rl)))]

----------------------------------------------------------------------------
(* The values the cells are run with *)

EPuck == [R |-> Q(41, 2000), D |-> Q(13, 250)]

GeomSet ==
    { EPuck,
      [R |-> Q(1, 10), D |-> Q(2, 5)],
      [R |-> Zero, D |-> Q(13, 250)],
      [R |-> Q(41, 2000), D |-> Zero],
      [R |-> Q(-41, 2000), D |-> Q(13, 250)],
      [R |-> Q(41, 2000), D |-> Q(-13, 250)] }

OdoGeomSet == {[R |-> Q(1, 10), D |-> Q(2, 5)], [R |-> Q(41, 2000), D |-> Zero]}

GainSet ==
    { [kp |-> Num(1), kd |-> Zero, ki |-> Zero],
      [kp |-> Q(1, 2), kd |-> Q(1, 100), ki |-> Q(1, 10)] }

PoseSet ==
    { [x |-> Zero, y |-> Zero, phi |-> Angle(1)],
      [x |-> Num(2), y |-> Num(4), phi |-> Angle(-2)],
      [x |-> Zero, y |-> Zero, phi |-> np_pi] }

\* the poses of the go-to-goal notebook: headings on and across the
\* boundary, and headings odometry has not normalized
GoalPoseSet ==
    { [x |-> Zero, y |-> Zero, phi |-> Angle(1)],
      [x |-> Num(2), y |-> Num(4), phi |-> Angle(-2)],
      [x |-> Zero, y |-> Zero, phi |-> np_pi],
      [x |-> Zero, y |-> Zero, phi |-> Angle(2)],
      [x |-> Zero, y |-> Zero, phi |-> Angle(9)],
      [x |-> Zero, y |-> Zero, phi |-> Angle(-12)] }

PidSet ==
    { [e_prev |-> Zero, e_acc |-> Zero],
      [e_prev |-> Q(14137, 10000), e_acc |-> Zero] }

USet == {Zero, Q(1, 5)}

WSet == {Angle(-6), Zero, Angle(2), Angle(8)}

DtSet == {Num(-1), Zero, Q(1, 2), Num(1)}

GoalSet ==
    {<<Zero, Zero>>, <<Num(-1), Num(1)>>, <<Num(2), Num(4)>>, <<Zero, Num(-1)>>}

ErrSet == {Zero, Q(15708, 10000), Num(-1)}

PidDtSet == {Q(-1, 100), Zero, Q(1, 100)}

CmdSet == {<<Q(1, 10), Q(-1, 2)>>, <<Zero, Zero>>, <<Q(1, 2), Q(1, 50)>>}

WheelSet == {<<Q(5236, 1000), Q(13090, 1000)>>}

FrontSet == {Q(-1, 10), Zero, Q(4, 100), Q(5, 100), Q(25, 100), Q(5, 10), Q(6, 10)}

DMaxSet == {Q(25, 100), Q(50, 100)}

WallSet ==
    { <<Q(18, 100), Q(15, 100)>>, <<Q(18, 100), Q(20, 100)>>,
      <<Q(20, 100), Q(20, 100)>> }

\* <<d_fl, d_rl, d_desired>>
SideSet ==
    { <<Q(18, 100), Q(20, 100), Q(20, 100)>>,
      <<Q(18, 100), Q(20, 100), Q(15, 100)>>,
      <<Q(20, 100), Q(18, 100), Q(20, 100)>> }

KpSet == {Num(1), Num(2)}

\* <<encoderValues, oldEncoderValues>>
EncoderSet ==
    { <<(<<1506, 1515>>), (<<1500, 1500>>)>>,
      <<(<<1500, 1506>>), (<<1500, 1500>>)>>,
      <<(<<1494, 1500>>), (<<1500, 1500>>)>> }

PulsesSet == {-72, 0, 72}

EncoderDtSet == {Q(-1, 10), Zero, Q(1, 10)}

NoCall == [op |-> "none", args |-> <<>>, exc |-> "None", ret |-> <<>>]

Called(op, args, r) == [op |-> op, args |-> args, exc |-> r.exc, ret |-> r.ret]

----------------------------------------------------------------------------
(* The control cycle.  The notebooks define the four functions of the      *)
(* go-to-goal loop and describe the loop in text; the loop itself is left  *)
(* to the caller.  The cycle below is the one the specification gives: the *)
(* odometry update, the pose error, the PID step and the kinematics        *)
(* conversion, called once each through the names the cells use (x, y,     *)
(* phi; orientation_err; w_d).  It returns the calls it made, in the order *)
(* it made them.  The orientation error is a numpy.float64.                *)

\* the desired linear speed, a constant of the loop
CycleSpeed == Q(1, 10)

\* the control cycle computing the pose error before the odometry update,
\* from the prior pose
control_cycle_stale(u, w, x_old, y_old, phi_old, e_prev, e_acc, xd, yd, delta_t, kp, kd, ki, D, R) ==
    LET p == get_robot_pose(u, w, x_old, y_old, phi_old, delta_t)
        err == get_pose_error(xd, yd, x_old, y_old, phi_old)
        c == pid_controller(err.phi_err, e_prev, e_acc, delta_t, kp, kd, ki, TRUE)
        k == wheel_speed_commands(CycleSpeed, c.ret.output, D, R, TRUE)
    IN  << Called("get_pose_error",
                  [xd |-> xd, yd |-> yd, x |-> x_old, y |-> y_old, phi |-> phi_old],
                  Returned(err)),
           Called("get_robot_pose",
                  [u |-> u, w |-> w, x_old |-> x_old, y_old |-> y_old,
                   phi_old |-> phi_old, delta_t |-> delta_t], Returned(p)),
           Called("pid_controller",
                  [e |-> err.phi_err, e_prev |-> e_prev, e_acc |-> e_acc,
                   delta_t |-> delta_t, kp |-> kp, kd |-> kd, ki |-> ki,
                   np |-> TRUE], c),
           Called("wheel_speed_commands",
                  [u_d |-> CycleSpeed, w_d |-> c.ret.output, D |-> D, R |-> R,
                   np |-> TRUE], k) >>

control_cycle(u, w, x_old, y_old, phi_old, e_prev, e_acc, xd, yd, delta_t, kp, kd, ki, D, R) ==
    LET p == get_robot_pose(u, w, x_old, y_old, phi_old, delta_t)
        err == get_pose_error(xd, yd, p.x, p.y, p.phi)
        c == pid_controller(err.phi_err, e_prev, e_acc, delta_t, kp, kd, ki, TRUE)
        k == wheel_speed_commands(CycleSpeed, c.ret.output, D, R, TRUE)
    IN  << Called("get_robot_pose",
                  [u |-> u, w |-> w, x_old |-> x_old, y_old |-> y_old,
                   phi_old |-> phi_old, delta_t |-> delta_t], Returned(p)),
           Called("get_pose_error",
                  [xd |-> xd, yd |-> yd, x |-> p.x, y |-> p.y, phi |-> p.phi],
                  Returned(err)),
           Called("pid_controller",
                  [e |-> err.phi_err, e_prev |-> e_prev, e_acc |-> e_acc,
                   delta_t |-> delta_t, kp |-> kp, kd |-> kd, ki |-> ki,
                   np |-> TRUE], c),
           Called("wheel_speed_commands",
                  [u_d |-> CycleSpeed, w_d |-> c.ret.output, D |-> D, R |-> R,
                   np |-> TRUE], k) >>

CycleWSet == {Zero, Angle(2)}

CycleDtSet == {Q(1, 2), Num(1)}

CycleGoalSet == {<<Zero, Zero>>, <<Zero, Num(-1)>>}

----------------------------------------------------------------------------
(* The cells *)

Odometry == {"get_wheels_speed", "get_robot_speeds", "get_robot_pose"}

Control == {"get_pose_error", "pid_controller"}

Behaviors ==
    { "wheel_speed_commands", "follow_wall_to_left", "follow_wall_to_left_obst",
      "improved_follow_wall_to_left_obst" }

Kinematics == {"wheel_speed_commands", "get_robot_speeds"}

GoToGoal == {"control_cycle"}

Init ==
    /\ \/ /\ loaded = Odometry
          /\ geom \in OdoGeomSet /\ pose \in PoseSet
          /\ gains \in {[kp |-> Num(1), kd |-> Zero, ki |-> Zero]}
          /\ pid \in {[e_prev |-> Zero, e_acc |-> Zero]}
       \/ /\ loaded = Control
          /\ gains \in GainSet /\ pose \in GoalPoseSet /\ pid \in PidSet
          /\ geom = EPuck
       \/ /\ loaded = GoToGoal
          /\ gains \in GainSet /\ geom = EPuck
          /\ pose \in {[x |-> Zero, y |-> Zero, phi |-> Angle(1)]}
          /\ pid \in {[e_prev |-> Zero, e_acc |-> Zero]}
       \/ /\ \/ loaded = Behaviors /\ geom = EPuck
             \/ loaded = Kinematics /\ geom \in GeomSet
          /\ pose \in {[x |-> Zero, y |-> Zero, phi |-> Zero]}
          /\ gains \in {[kp |-> Num(1), kd |-> Zero, ki |-> Zero]}
          /\ pid \in {[e_prev |-> Zero, e_acc |-> Zero]}
    /\ cmd = [ok |-> FALSE, u_d |-> Zero, w_d |-> Zero, wl_d |-> Zero, wr_d |-> Zero]
    /\ call = NoCall
    /\ steps = 0

\* wl_d, wr_d = wheel_speed_commands(u_d, w_d, D, R)
WheelSpeedCommands ==
    /\ "wheel_speed_commands" \in loaded
    /\ steps < MaxSteps
    /\ \E c \in CmdSet, np \in BOOLEAN :
          LET r == wheel_speed_commands(c[1], c[2], geom.D, geom.R, np)
          IN  /\ call' = Called("wheel_speed_commands",
                                [u_d |-> c[1], w_d |-> c[2], D |-> geom.D,
                                 R |-> geom.R, np |-> np], r)
              /\ cmd' = IF r.exc = "None"
                        THEN [ok |-> IsFinite(r.ret[1]) /\ IsFinite(r.ret[2]),
                              u_d |-> c[1], w_d |-> c[2],
                              wl_d |-> r.ret[1], wr_d |-> r.ret[2]]
                        ELSE cmd
    /\ steps' = steps + 1
    /\ UNCHANGED <<loaded, geom, gains, pose, pid>>

\* wl, wr = get_wheels_speed(encoderValues, oldEncoderValues,
\*                           pulses_per_turn, delta_t)
GetWheelsSpeed ==
    /\ "get_wheels_speed" \in loaded
    /\ steps < MaxSteps
    /\ \E en \in EncoderSet, pulses_per_turn \in PulsesSet,
          delta_t \in EncoderDtSet, np \in BOOLEAN :
          call' = Called("get_wheels_speed",
                         [encoderValues |-> en[1], oldEncoderValues |-> en[2],
                          pulses_per_turn |-> pulses_per_turn,
                          delta_t |-> delta_t, np |-> np],
                         get_wheels_speed(en[1], en[2], pulses_per_turn,
                                          delta_t, np))
    /\ steps' = steps + 1
    /\ UNCHANGED <<loaded, geom, gains, pose, pid, cmd>>

\* u, w = get_robot_speeds(wl, wr, R, D), on measured wheel speeds or on the
\* speeds just commanded (wheels that follow their commands)
GetRobotSpeeds ==
    /\ "get_robot_speeds" \in loaded
    /\ steps < MaxSteps
    /\ \E ws \in WheelSet \cup (IF cmd.ok THEN {<<cmd.wl_d, cmd.wr_d>>} ELSE {}) :
          call' = Called("get_robot_speeds",
                         [wl |-> ws[1], wr |-> ws[2], R |-> geom.R, D |-> geom.D],
                         get_robot_speeds(ws[1], ws[2], geom.R, geom.D))
    /\ steps' = steps + 1
    /\ UNCHANGED <<loaded, geom, gains, pose, pid, cmd>>

\* x, y, phi = get_robot_pose(u, w, x_old, y_old, phi_old, delta_t)
GetRobotPose ==
    /\ "get_robot_pose" \in loaded
    /\ steps < MaxSteps
    /\ \E u \in USet, w \in WSet, delta_t \in DtSet :
          LET p == get_robot_pose(u, w, pose.x, pose.y, pose.phi, delta_t)
          IN  /\ call' = Called("get_robot_pose",
                                [u |-> u, w |-> w, x_old |-> pose.x,
                                 y_old |-> pose.y, phi_old |-> pose.phi,
                                 delta_t |-> delta_t], Returned(p))
              /\ pose' = p
    /\ steps' = steps + 1
    /\ UNCHANGED <<loaded, geom, gains, pid, cmd>>

\* The goals whose direction np.arctan2 is tabulated on, near enough for
\* np.sqrt to hold the squared distance
Reachable(g) ==
    LET x_err == Sub(g[1], pose.x)
        y_err == Sub(g[2], pose.y)
    IN  /\ Tabulated(y_err, x_err)
        /\ Lt(AbsQ(x_err), Num(3)) /\ Lt(AbsQ(y_err), Num(3))
        /\ 10000 % x_err.d = 0 /\ 10000 % y_err.d = 0

\* the pose-error cell unpacking the orientation error into phi
\* (position_err, phi = get_pose_error(xd, yd, x, y, phi))
GetPoseError_overwriting ==
    /\ "get_pose_error" \in loaded
    /\ steps < MaxSteps
    /\ \E g \in GoalSet :
          LET r == get_pose_error(g[1], g[2], pose.x, pose.y, pose.phi)
          IN  /\ Reachable(g)
              /\ call' = Called("get_pose_error",
                                [xd |-> g[1], yd |-> g[2], x |-> pose.x,
                                 y |-> pose.y, phi |-> pose.phi], Returned(r))
              /\ pose' = [pose EXCEPT !.phi = r.phi_err]
    /\ steps' = steps + 1
    /\ UNCHANGED <<loaded, geom, gains, pid, cmd>>

\* position_err, orientation_err = get_pose_error(xd, yd, x, y, phi)
GetPoseError ==
    /\ "get_pose_error" \in loaded
    /\ steps < MaxSteps
    /\ \E g \in GoalSet :
          /\ Reachable(g)
          /\ call' = Called("get_pose_error",
                            [xd |-> g[1], yd |-> g[2], x |-> pose.x, y |-> pose.y,
                             phi |-> pose.phi],
                            Returned(get_pose_error(g[1], g[2], pose.x, pose.y,
                                                    pose.phi)))
    /\ steps' = steps + 1
    /\ UNCHANGED <<loaded, geom, gains, pose, pid, cmd>>

\* w_d, e_prev, e_acc = pid_controller(e, e_prev, e_acc, delta_t, kp, kd, ki)
PidController ==
    /\ "pid_controller" \in loaded
    /\ steps < MaxSteps
    /\ \E e \in ErrSet, delta_t \in PidDtSet, np \in BOOLEAN :
          LET r == pid_controller(e, pid.e_prev, pid.e_acc, delta_t,
                                  gains.kp, gains.kd, gains.ki, np)
          IN  /\ call' = Called("pid_controller",
                                [e |-> e, e_prev |-> pid.e_prev,
                                 e_acc |-> pid.e_acc, delta_t |-> delta_t,
                                 kp |-> gains.kp, kd |-> gains.kd,
                                 ki |-> gains.ki, np |-> np], r)
              /\ pid' = IF r.exc = "None"
                        THEN [e_prev |-> r.ret.e_prev, e_acc |-> r.ret.e_acc]
                        ELSE pid
    /\ steps' = steps + 1
    /\ UNCHANGED <<loaded, geom, gains, pose, cmd>>

\* u_ref, w_ref = follow_wall_to_left_obst(kp, d_l, d_desired, d)
FollowWallToLeftObst ==
    /\ "follow_wall_to_left_obst" \in loaded
    /\ steps < MaxSteps
    /\ \E kp \in KpSet, wl \in WallSet, d \in FrontSet, d_max \in DMaxSet :
          call' = Called("follow_wall_to_left_obst",
                         [kp |-> kp, d_l |-> wl[1], d_desired |-> wl[2],
                          d |-> d, d_max |-> d_max],
                         Returned(follow_wall_to_left_obst(kp, wl[1], wl[2],
                                                           d, d_max)))
    /\ steps' = steps + 1
    /\ UNCHANGED <<loaded, geom, gains, pose, pid, cmd>>

\* u_ref, w_ref = follow_wall_to_left(kp, d_l, d_desired)
FollowWallToLeft ==
    /\ "follow_wall_to_left" \in loaded
    /\ steps < MaxSteps
    /\ \E kp \in KpSet, wl \in WallSet :
          call' = Called("follow_wall_to_left",
                         [kp |-> kp, d_l |-> wl[1], d_desired |-> wl[2]],
                         Returned(follow_wall_to_left(kp, wl[1], wl[2])))
    /\ steps' = steps + 1
    /\ UNCHANGED <<loaded, geom, gains, pose, pid, cmd>>

\* u_ref, w_ref = improved_follow_wall_to_left_obst(kp, kp2, d_fl, d_rl,
\*                                                  d_desired, d)
ImprovedFollowWallToLeftObst ==
    /\ "improved_follow_wall_to_left_obst" \in loaded
    /\ steps < MaxSteps
    /\ \E kp \in KpSet, kp2 \in KpSet, sd \in SideSet, d \in FrontSet,
          d_max \in DMaxSet :
          call' = Called("improved_follow_wall_to_left_obst",
                         [kp |-> kp, kp2 |-> kp2, d_fl |-> sd[1], d_rl |-> sd[2],
                          d_desired |-> sd[3], d |-> d, d_max |-> d_max],
                         Returned(improved_follow_wall_to_left_obst(
                                      kp, kp2, sd[1], sd[2], sd[3], d, d_max)))
    /\ steps' = steps + 1
    /\ UNCHANGED <<loaded, geom, gains, pose, pid, cmd>>

\* The goals get_pose_error is tabulated on from the position (x, y)
ReachableFrom(x, y, g) ==
    LET x_err == Sub(g[1], x)
        y_err == Sub(g[2], y)
    IN  /\ Tabulated(y_err, x_err)
        /\ Lt(AbsQ(x_err), Num(3)) /\ Lt(AbsQ(y_err), Num(3))
        /\ 10000 % x_err.d = 0 /\ 10000 % y_err.d = 0

\* one cycle of the go-to-goal loop, on the speeds measured since the last
ControlCycle ==
    /\ "control_cycle" \in loaded
    /\ steps < MaxSteps
    /\ \E u \in USet, w \in CycleWSet, g \in CycleGoalSet, delta_t \in CycleDtSet :
          /\ ReachableFrom(pose.x, pose.y, g)
          /\ \E p \in {get_robot_pose(u, w, pose.x, pose.y, pose.phi, delta_t)} :
                ReachableFrom(p.x, p.y, g)
          /\ \E made \in {control_cycle(u, w, pose.x, pose.y, pose.phi,
                                     pid.e_prev, pid.e_acc, g[1], g[2], delta_t,
                                     gains.kp, gains.kd, gains.ki, geom.D, geom.R)} :
              /\ call' = Called("control_cycle",
                                [u |-> u, w |-> w, x_old |-> pose.x,
                                 y_old |-> pose.y, phi_old |-> pose.phi,
                                 e_prev |-> pid.e_prev, e_acc |-> pid.e_acc,
                                 xd |-> g[1], yd |-> g[2], delta_t |-> delta_t],
                                Returned(made))
              /\ pose' = made[1].ret
              /\ pid' = [e_prev |-> made[3].ret.e_prev, e_acc |-> made[3].ret.e_acc]
              /\ cmd' = [ok |-> TRUE, u_d |-> made[4].args.u_d,
                         w_d |-> made[4].args.w_d,
                         wl_d |-> made[4].ret[1], wr_d |-> made[4].ret[2]]
    /\ steps' = steps + 1
    /\ UNCHANGED <<loaded, geom, gains>>

Next ==
    \/ WheelSpeedCommands
    \/ GetWheelsSpeed
    \/ GetRobotSpeeds
    \/ GetRobotPose
    \/ GetPoseError
    \/ PidController
    \/ FollowWallToLeftObst
    \/ FollowWallToLeft
    \/ ImprovedFollowWallToLeftObst
    \/ ControlCycle

Spec == Init /\ [][Next]_vars

----------------------------------------------------------------------------
(* Odometry: the heading range *)

InClosedRange(a) == Ge(a, Neg(np_pi)) /\ Le(a, np_pi)

\* an odometry update with dt > 0 and |angular * dt| < 2 pi
ForwardUpdate ==
    /\ call.op = "get_robot_pose"
    /\ Gt(call.args.delta_t, Zero)
    /\ Lt(AbsQ(Mul(call.args.w, call.args.delta_t)), TwoPi)

\* C1, as stated: from a heading in (-pi, pi], an odometry update with dt > 0
\* and |angular * dt| < 2 pi returns a heading in (-pi, pi].
C1_HeadingInLeftOpenRange ==
    ForwardUpdate /\ Gt(call.args.phi_old, Neg(np_pi)) /\ Le(call.args.phi_old, np_pi)
        => Gt(call.ret.phi, Neg(np_pi)) /\ Le(call.ret.phi, np_pi)

\* C1, amended: from a heading in [-pi, pi] (so also from one a previous
\* update returned), an odometry update with dt > 0 and |angular * dt| < 2 pi
\* returns a heading in [-pi, pi): -pi is produced, +pi never is.
C1_HeadingInRightOpenRange ==
    ForwardUpdate /\ InClosedRange(call.args.phi_old)
        => Ge(call.ret.phi, Neg(np_pi)) /\ Lt(call.ret.phi, np_pi)

\* an update that reaches +pi and returns -pi
C1_Witness ==
    /\ ForwardUpdate
    /\ Gt(call.args.phi_old, Neg(np_pi)) /\ Lt(call.args.phi_old, np_pi)
    /\ Add(call.args.phi_old, Mul(call.args.w, call.args.delta_t)) = np_pi
    /\ call.ret.phi = Neg(np_pi)

----------------------------------------------------------------------------
(* Wall following with obstacle detection *)

MinQ(a, b) == IF Lt(a, b) THEN a ELSE b

\* C2: for every front distance d >= d_min the linear speed is
\* u_max * min(d, d_max) / d_max, so it never exceeds u_max.
C2_LinearSpeedClamped ==
    call.op = "follow_wall_to_left_obst" /\ Ge(call.args.d, d_min)
        => /\ call.ret.u_ref
                = Div(Mul(u_max, MinQ(call.args.d, call.args.d_max)), call.args.d_max)
           /\ Le(call.ret.u_ref, u_max)

----------------------------------------------------------------------------
(* Pose error at the goal *)

AtGoal ==
    /\ call.op = "get_pose_error"
    /\ call.args.xd = call.args.x /\ call.args.yd = call.args.y

\* a and b differ by a multiple of 2 pi
SameDirection(a, b) == OnGrid(Sub(a, b)) /\ GridIndex(Sub(a, b)) % 8 = 0

\* C3, as stated: when the goal is the current position the heading error
\* is 0 for every current heading.
C3_ZeroHeadingErrorAtGoal ==
    AtGoal => call.ret.dist_err = Zero /\ call.ret.phi_err = Zero

\* C3, amended: when the goal is the current position the distance is 0 and
\* the heading error is the negated current heading folded into [-pi, pi];
\* it is 0 only when the heading is a multiple of 2 pi.
C3_HeadingErrorAtGoal ==
    AtGoal
        => /\ call.ret.dist_err = Zero
           /\ InClosedRange(call.ret.phi_err)
           /\ SameDirection(call.ret.phi_err, Neg(call.args.phi))
           /\ (call.ret.phi_err = Zero <=> SameDirection(call.args.phi, Zero))

\* at the goal with heading pi/4: the heading error is -pi/4
C3_Witness ==
    AtGoal /\ call.args.phi = Angle(1) /\ call.ret.phi_err = Angle(-1)

----------------------------------------------------------------------------
(* Time steps that are not positive *)

PidCall == call.op = "pid_controller"

\* kp*e + (e_acc + ki*e*dt) + kd*(e - e_prev)/dt for the call's arguments
PidFormula ==
    LET a == call.args
    IN  Add(Add(Mul(a.kp, a.e), Add(a.e_acc, Mul(Mul(a.ki, a.e), a.delta_t))),
            Div(Mul(a.kd, Sub(a.e, a.e_prev)), a.delta_t))

Accumulated ==
    Add(call.args.e_acc, Mul(Mul(call.args.ki, call.args.e), call.args.delta_t))

PidStateBefore == [e_prev |-> call.args.e_prev, e_acc |-> call.args.e_acc]

\* C4, as stated: a PID step with dt <= 0 fails with InvalidTimeStep and
\* leaves the PID state as it was.
C4_PidRejectsNonPositiveDt ==
    PidCall /\ Le(call.args.delta_t, Zero)
        => call.exc = "InvalidTimeStep" /\ pid = PidStateBefore

\* C4, amended: a PID step with dt <= 0 is not rejected.  With dt < 0 it
\* returns the output of the PID formula and the state (error, accumulator +
\* ki*error*dt).  With dt = 0 it divides by zero: on Python floats that
\* raises ZeroDivisionError, no output is produced and the PID state stays
\* as it was; on NumPy floats it returns a non-finite output and the state
\* (error, accumulator).
C4_PidNonPositiveDt ==
    PidCall /\ Le(call.args.delta_t, Zero)
        => IF Lt(call.args.delta_t, Zero)
           THEN /\ call.exc = "None"
                /\ call.ret.output = PidFormula
                /\ pid = [e_prev |-> call.args.e, e_acc |-> Accumulated]
           ELSE IF call.args.np
           THEN /\ call.exc = "None"
                /\ ~IsFinite(call.ret.output)
                /\ pid = [e_prev |-> call.args.e, e_acc |-> call.args.e_acc]
           ELSE /\ call.exc = "ZeroDivisionError"
                /\ pid = PidStateBefore

\* a step with dt < 0 that changed the accumulator
C4_Witness ==
    /\ PidCall /\ Lt(call.args.delta_t, Zero)
    /\ call.exc = "None" /\ pid.e_acc # call.args.e_acc

PoseCall == call.op = "get_robot_pose"

PoseBefore ==
    [x |-> call.args.x_old, y |-> call.args.y_old, phi |-> call.args.phi_old]

\* C5, as stated: get_robot_pose with dt <= 0 fails with InvalidTimeStep and
\* the prior pose is retained.
C5_PoseRejectsNonPositiveDt ==
    PoseCall /\ Le(call.args.delta_t, Zero)
        => call.exc = "InvalidTimeStep" /\ pose = PoseBefore

\* C5, amended: get_robot_pose does not check dt.  With dt <= 0 it raises
\* nothing and returns a pose, which becomes the pose: with dt = 0 the prior
\* x and y and the prior heading (wrapped, if it was not in [-pi, pi)); with
\* dt < 0 the pose integrated backwards, heading = prior + angular*dt wrapped
\* and position = prior + linear*dt*(cos, sin)(heading).
C5_PoseNonPositiveDt ==
    PoseCall /\ Le(call.args.delta_t, Zero)
        => LET a == call.args
               r == call.ret
           IN  /\ call.exc = "None"
               /\ pose = r
               /\ SameDirection(r.phi, Add(a.phi_old, Mul(a.w, a.delta_t)))
               /\ r.x = Add(a.x_old, Mul(Mul(a.u, np_cos(r.phi)), a.delta_t))
               /\ r.y = Add(a.y_old, Mul(Mul(a.u, np_sin(r.phi)), a.delta_t))
               /\ a.delta_t = Zero
                    => /\ r.x = a.x_old /\ r.y = a.y_old
                       /\ Ge(a.phi_old, Neg(np_pi)) /\ Lt(a.phi_old, np_pi)
                            => r.phi = a.phi_old

\* an update with dt < 0 that moved the robot
C5_Witness ==
    /\ PoseCall /\ Lt(call.args.delta_t, Zero)
    /\ pose.x # call.args.x_old /\ pose.phi # call.args.phi_old

----------------------------------------------------------------------------
(* Kinematics *)

WheelCall == call.op = "wheel_speed_commands"

SpeedsCall == call.op = "get_robot_speeds"

\* C6, as stated: a geometry with R <= 0 or D <= 0 is rejected when it is
\* configured, so no conversion is evaluated with it.
C6_GeometryRejected ==
    Le(geom.R, Zero) \/ Le(geom.D, Zero) => ~WheelCall /\ ~SpeedsCall

\* C6, amended: no geometry is rejected; the conversions are evaluated with
\* the R and D they are given.  wheel_speed_commands fails only for R = 0
\* (ZeroDivisionError on Python floats, non-finite wheel speeds on NumPy
\* floats) and get_robot_speeds only for D = 0 (ZeroDivisionError); with
\* negative R or D both return finite speeds.
C6_GeometryNotChecked ==
    /\ WheelCall
         => /\ call.args.R = geom.R /\ call.args.D = geom.D
            /\ call.exc = "ZeroDivisionError" <=> geom.R = Zero /\ ~call.args.np
            /\ call.exc = "None" <=> ~(geom.R = Zero /\ ~call.args.np)
            /\ call.exc = "None"
                 => (IsFinite(call.ret[1]) /\ IsFinite(call.ret[2]) <=> geom.R # Zero)
    /\ SpeedsCall
         => /\ call.args.R = geom.R /\ call.args.D = geom.D
            /\ call.exc = "ZeroDivisionError" <=> geom.D = Zero
            /\ call.exc = "None" <=> geom.D # Zero

\* a conversion evaluated with a negative wheel radius
C6_Witness ==
    SpeedsCall /\ Lt(geom.R, Zero) /\ call.exc = "None" /\ call.ret.u # Zero

\* get_robot_speeds applied to the wheel speeds wheel_speed_commands returned
RoundTrip ==
    /\ SpeedsCall /\ cmd.ok
    /\ call.args.wl = cmd.wl_d /\ call.args.wr = cmd.wr_d

\* C7, as stated: for every geometry with R > 0, get_robot_speeds of the
\* wheel speeds wheel_speed_commands returned for (u_d, w_d) is (u_d, w_d).
C7_RoundTrip ==
    RoundTrip /\ Gt(geom.R, Zero)
        => call.exc = "None" /\ call.ret.u = cmd.u_d /\ call.ret.w = cmd.w_d

\* C7, amended: the same for every geometry with R > 0 and D # 0 (with
\* D = 0 get_robot_speeds divides by zero).
C7_RoundTripNonZeroBase ==
    RoundTrip /\ Gt(geom.R, Zero) /\ geom.D # Zero
        => call.exc = "None" /\ call.ret.u = cmd.u_d /\ call.ret.w = cmd.w_d

\* a round trip of a turning command
C7_Witness ==
    /\ RoundTrip /\ Gt(geom.R, Zero) /\ geom.D # Zero
    /\ cmd.w_d # Zero /\ cmd.u_d # Zero /\ cmd.wl_d # cmd.wr_d
    /\ call.exc = "None" /\ call.ret.w = cmd.w_d

Near(a, b, tol) == Lt(AbsQ(Sub(a, b)), tol)

ReferenceCommand ==
    /\ WheelCall
    /\ call.args.u_d = Q(1, 10) /\ call.args.w_d = Q(-1, 2)
    /\ call.args.D = Q(52, 1000) /\ call.args.R = Q(205, 10000)

----------------------------------------------------------------------------
(* The PID step *)

ReferenceStep ==
    /\ PidCall
    /\ call.args.e = Q(15708, 10000) /\ call.args.e_prev = Q(14137, 10000)
    /\ call.args.e_acc = Zero /\ call.args.delta_t = Q(1, 100)
    /\ call.args.kp = Q(1, 2) /\ call.args.kd = Q(1, 100) /\ call.args.ki = Q(1, 10)

\* C9: for dt > 0 a PID step returns
\* kp*e + (e_acc + ki*e*dt) + kd*(e - e_prev)/dt, the integral term being
\* the accumulator already updated with the current error; the reference
\* step (e = 1.5708, e_prev = 1.4137, e_acc = 0, dt = 0.01, kp = 0.5,
\* kd = 0.01, ki = 0.1) gives 0.944 to three decimals.
C9_PidOutput ==
    PidCall /\ Gt(call.args.delta_t, Zero)
        => /\ call.exc = "None"
           /\ call.ret.output = PidFormula
           /\ call.ret.e_acc = Accumulated
           /\ ReferenceStep => Near(call.ret.output, Q(944, 1000), Q(1, 1000))

\* the reference step, taken
C9_Witness ==
    ReferenceStep /\ call.exc = "None" /\ call.ret.e_acc # Zero

\* C10: a PID step with dt > 0 changes the accumulator by exactly ki*e*dt,
\* whether the cell is run on its own or as the third call of a control
\* cycle, and no other cell changes it; so after any sequence of such steps
\* it is its initial value plus the sum of the ki*e_i*dt_i.
C10_IntegralAccumulation ==
    [][/\ call'.op = "pid_controller" /\ Gt(call'.args.delta_t, Zero)
            => pid'.e_acc
                 = Add(pid.e_acc,
                       Mul(Mul(gains.ki, call'.args.e), call'.args.delta_t))
       /\ call'.op = "control_cycle" /\ Gt(call'.ret[3].args.delta_t, Zero)
            => pid'.e_acc
                 = Add(pid.e_acc,
                       Mul(Mul(gains.ki, call'.ret[3].args.e),
                           call'.ret[3].args.delta_t))
       /\ call'.op \notin {"pid_controller", "control_cycle"}
            => pid'.e_acc = pid.e_acc]_vars

\* a second step that accumulated on top of the first
C10_Witness ==
    /\ PidCall /\ Gt(call.args.delta_t, Zero)
    /\ call.args.e_acc # Zero /\ pid.e_acc # call.args.e_acc
    /\ Gt(pid.e_acc, Q(2, 1000))

\* a step with dt > 0 on no error and the zero state
ZeroStep ==
    /\ PidCall /\ Gt(call.args.delta_t, Zero)
    /\ call.args.e = Zero /\ call.args.e_prev = Zero /\ call.args.e_acc = Zero

\* C11: for any gains and any dt > 0, a PID step with error 0 on the state
\* (previous error 0, accumulator 0) returns output 0 and the state (0, 0)
\* again, so repeating it keeps the output 0 and the state unchanged.
C11_PidIdempotence ==
    ZeroStep
        => /\ call.exc = "None"
           /\ call.ret.output = Zero
           /\ call.ret.e_prev = Zero /\ call.ret.e_acc = Zero
           /\ pid = PidStateBefore

\* a second step in a row on the zero state, with all three gains set
C11_Witness ==
    /\ ZeroStep /\ steps >= 2
    /\ call.args.kp # Zero /\ call.args.kd # Zero /\ call.args.ki # Zero
    /\ call.ret.output = Zero /\ pid = [e_prev |-> Zero, e_acc |-> Zero]

----------------------------------------------------------------------------
(* Odometry: the integration scheme *)

\* the position a step along the heading h gives
Stepped(h) ==
    LET a == call.args
    IN  [x |-> Add(a.x_old, Mul(Mul(a.u, np_cos(h)), a.delta_t)),
         y |-> Add(a.y_old, Mul(Mul(a.u, np_sin(h)), a.delta_t))]

\* C12: get_robot_pose first computes the new heading, prior heading +
\* angular*dt wrapped, and then moves along that new heading, not the
\* prior one: x_new = x + linear*cos(headingNew)*dt and
\* y_new = y + linear*sin(headingNew)*dt.
C12_HeadingAheadEuler ==
    PoseCall
        => LET a == call.args
               r == call.ret
           IN  /\ SameDirection(r.phi, Add(a.phi_old, Mul(a.w, a.delta_t)))
               /\ InClosedRange(Add(a.phi_old, Mul(a.w, a.delta_t)))
                    /\ Add(a.phi_old, Mul(a.w, a.delta_t)) # np_pi
                    => r.phi = Add(a.phi_old, Mul(a.w, a.delta_t))
               /\ r.x = Stepped(r.phi).x
               /\ r.y = Stepped(r.phi).y

\* a step that turned, wrapped the heading and moved where a step along the
\* prior heading would not have
C12_Witness ==
    /\ PoseCall /\ Gt(call.args.delta_t, Zero) /\ call.args.u # Zero
    /\ call.ret.phi # Add(call.args.phi_old, Mul(call.args.w, call.args.delta_t))
    /\ call.ret.x # Stepped(call.args.phi_old).x
    /\ call.ret.y # Stepped(call.args.phi_old).y
    /\ call.ret.x = Stepped(call.ret.phi).x

----------------------------------------------------------------------------
(* Wall following: the front obstacle *)

ObstacleCall ==
    call.op \in {"follow_wall_to_left_obst", "improved_follow_wall_to_left_obst"}

\* C13, as stated: a front reading equal to d_min is too close; both
\* behaviours return linear speed 0 for it, without an error.
C13_StopsAtMinDistance ==
    ObstacleCall /\ call.args.d = d_min
        => call.exc = "None" /\ call.ret.u_ref = Zero

\* C13, amended: a front reading equal to d_min is admissible (d >= d_min);
\* both behaviours return the positive linear speed u_max*d_min/d_max for
\* it, without an error.
C13_MovesAtMinDistance ==
    ObstacleCall /\ call.args.d = d_min
        => /\ call.exc = "None"
           /\ call.ret.u_ref = Div(Mul(u_max, d_min), call.args.d_max)
           /\ Gt(call.ret.u_ref, Zero)

\* the obstacle-aware behaviour at d = d_min, d_max = 0.50: 0.05 m/s
C13_Witness ==
    /\ call.op = "follow_wall_to_left_obst" /\ call.args.d = d_min
    /\ call.args.d_max = Q(50, 100) /\ call.ret.u_ref = Q(5, 100)

\* C14: whenever the front reading is below d_min (zero and negative
\* readings included) both behaviours return linear speed exactly 0,
\* whatever the wall readings and the gains.
C14_StopsBelowMinDistance ==
    ObstacleCall /\ Lt(call.args.d, d_min)
        => call.exc = "None" /\ call.ret.u_ref = Zero

\* the parallel-correcting behaviour stopped by a negative reading, still
\* turning
C14_Witness ==
    /\ call.op = "improved_follow_wall_to_left_obst"
    /\ Lt(call.args.d, Zero) /\ call.args.kp2 = Num(2)
    /\ call.ret.u_ref = Zero /\ call.ret.w_ref # Zero

----------------------------------------------------------------------------
(* Wall following: the angular command *)

ImprovedCall == call.op = "improved_follow_wall_to_left_obst"

\* kp*((d_fl + d_rl)/2 - d_desired), the distance term of the call
DistanceTerm(kp) ==
    Mul(kp, Sub(Div(Add(call.args.d_fl, call.args.d_rl), Num(2)),
                call.args.d_desired))

\* kp2*(d_fl - d_rl), the parallel term of the call
ParallelTerm(kp2) == Mul(kp2, Sub(call.args.d_fl, call.args.d_rl))

\* C15: the parallel-correcting behaviour returns
\* angular = kp*((front + rear)/2 - desired) + kp2*(front - rear), kp and
\* kp2 being separate gains: kp2 scales the (front - rear) term only and kp
\* the distance term only; kp = kp2 = 1, front = 0.18, rear = 0.20,
\* desired = 0.20 gives -0.03.
C15_ParallelCorrecting ==
    ImprovedCall
        => LET a == call.args
           IN  /\ call.exc = "None"
               /\ call.ret.w_ref = Add(DistanceTerm(a.kp), ParallelTerm(a.kp2))
               /\ Sub(call.ret.w_ref, DistanceTerm(a.kp)) = ParallelTerm(a.kp2)
               /\ Sub(call.ret.w_ref, ParallelTerm(a.kp2)) = DistanceTerm(a.kp)
               /\ a.kp = Num(1) /\ a.kp2 = Num(1) /\ a.d_fl = Q(18, 100)
                    /\ a.d_rl = Q(20, 100) /\ a.d_desired = Q(20, 100)
                    => call.ret.w_ref = Q(-3, 100)

\* the two gains differ and each scales its own term
C15_Witness ==
    /\ ImprovedCall /\ call.args.kp = Num(1) /\ call.args.kp2 = Num(2)
    /\ call.args.d_fl = Q(18, 100) /\ call.args.d_rl = Q(20, 100)
    /\ call.args.d_desired = Q(20, 100)
    /\ call.ret.w_ref = Q(-5, 100)

\* C16: the constant-speed behaviour returns linear = 0.5 for every input
\* and angular = kp*(d_l - d_desired); for kp > 0 the angular command is
\* negative exactly when the robot is closer to the wall than desired, zero
\* at the desired distance and positive when farther; kp = 1, d_l = 0.18,
\* d_desired = 0.20 gives (0.5, -0.02).
C16_ConstantSpeed ==
    call.op = "follow_wall_to_left"
        => LET a == call.args
               r == call.ret
           IN  /\ call.exc = "None"
               /\ r.u_ref = Q(5, 10)
               /\ r.w_ref = Mul(a.kp, Sub(a.d_l, a.d_desired))
               /\ Gt(a.kp, Zero)
                    => /\ Lt(r.w_ref, Zero) <=> Lt(a.d_l, a.d_desired)
                       /\ r.w_ref = Zero <=> a.d_l = a.d_desired
                       /\ Gt(r.w_ref, Zero) <=> Gt(a.d_l, a.d_desired)
               /\ a.kp = Num(1) /\ a.d_l = Q(18, 100) /\ a.d_desired = Q(20, 100)
                    => r.w_ref = Q(-2, 100)

\* the reference call: 18 cm measured, 20 cm desired
C16_Witness ==
    /\ call.op = "follow_wall_to_left" /\ call.args.kp = Num(1)
    /\ call.args.d_l = Q(18, 100) /\ call.args.d_desired = Q(20, 100)
    /\ call.ret.u_ref = Q(5, 10) /\ call.ret.w_ref = Q(-2, 100)

----------------------------------------------------------------------------
(* Wheel speeds from the encoders *)

WheelsCall == call.op = "get_wheels_speed"

\* 2*pi*(count - previous count)/pulses_per_turn/delta_t for the encoder at
\* index i of the lists (0 is the left encoder)
EncoderSpeed(i) ==
    LET a == call.args
    IN  Div(Div(Mul(TwoPi, Num(a.encoderValues[i + 1] - a.oldEncoderValues[i + 1])),
                Num(a.pulses_per_turn)),
            a.delta_t)

\* C17, as stated: get_wheels_speed with dt <= 0 or pulses_per_turn <= 0
\* fails with InvalidTimeStep.
C17_WheelsRejectNonPositive ==
    WheelsCall /\ (Le(call.args.delta_t, Zero) \/ call.args.pulses_per_turn <= 0)
        => call.exc = "InvalidTimeStep"

\* C17, amended: get_wheels_speed checks neither dt nor pulses_per_turn.
\* When either is 0 it divides by zero: on Python numbers that raises
\* ZeroDivisionError and no speeds are returned; on NumPy counts it returns
\* two non-finite speeds.  When neither is 0 it returns the two speeds
\* 2*pi*(count - previous)/pulses_per_turn/dt, also for negative dt or
\* pulses_per_turn.
C17_WheelsNonPositive ==
    WheelsCall /\ (Le(call.args.delta_t, Zero) \/ call.args.pulses_per_turn <= 0)
        => IF call.args.delta_t # Zero /\ call.args.pulses_per_turn # 0
           THEN /\ call.exc = "None"
                /\ call.ret[1] = EncoderSpeed(0) /\ call.ret[2] = EncoderSpeed(1)
           ELSE IF call.args.np
           THEN /\ call.exc = "None"
                /\ ~IsFinite(call.ret[1]) /\ ~IsFinite(call.ret[2])
           ELSE call.exc = "ZeroDivisionError"

\* a negative dt, accepted: forward counts read as backward speeds
C17_Witness ==
    /\ WheelsCall /\ Lt(call.args.delta_t, Zero) /\ call.args.pulses_per_turn > 0
    /\ call.exc = "None"
    /\ Lt(call.ret[1], Zero) /\ Lt(call.ret[2], call.ret[1])

ReferenceEncoders ==
    /\ WheelsCall
    /\ call.args.encoderValues = <<1506, 1515>>
    /\ call.args.oldEncoderValues = <<1500, 1500>>
    /\ call.args.pulses_per_turn = 72 /\ call.args.delta_t = Q(1, 10)

\* C18: for dt > 0 and pulses_per_turn > 0, get_wheels_speed returns
\* (left, right), each 2*pi*(count - previous count)/pulses_per_turn/dt,
\* the left from index 0 and the right from index 1 of the lists; with
\* counts that did not decrease both speeds are >= 0, and a wheel whose
\* count did not change has speed 0; 72 pulses per turn, dt = 0.1, counts
\* [1506, 1515] after [1500, 1500] give 5.236 and 13.090 rad/s to three
\* decimals.
C18_WheelsSpeed ==
    WheelsCall /\ Gt(call.args.delta_t, Zero) /\ call.args.pulses_per_turn > 0
        => LET a == call.args
               left == call.ret[1]
               right == call.ret[2]
           IN  /\ call.exc = "None"
               /\ left = EncoderSpeed(0) /\ right = EncoderSpeed(1)
               /\ a.encoderValues[1] >= a.oldEncoderValues[1] => Ge(left, Zero)
               /\ a.encoderValues[2] >= a.oldEncoderValues[2] => Ge(right, Zero)
               /\ a.encoderValues[1] = a.oldEncoderValues[1] => left = Zero
               /\ a.encoderValues[2] = a.oldEncoderValues[2] => right = Zero
               /\ ReferenceEncoders
                    => /\ Near(left, Q(5236, 1000), Q(1, 1000))
                       /\ Near(right, Q(13090, 1000), Q(1, 1000))

\* the reference reading: the right wheel turns faster than the left
C18_Witness ==
    /\ ReferenceEncoders /\ call.exc = "None"
    /\ Gt(call.ret[1], Num(5)) /\ Gt(call.ret[2], Num(13))

----------------------------------------------------------------------------
(* The pose error *)

PoseErrorCall == call.op = "get_pose_error"

\* arctan2(yd - y, xd - x) - phi, the orientation error before it is folded
RawHeadingError ==
    LET a == call.args
    IN  Sub(np_arctan2(Sub(a.yd, a.y), Sub(a.xd, a.x)), a.phi)

C20_Distance ==
    PoseErrorCall
        => LET dx == Sub(call.args.xd, call.args.x)
               dy == Sub(call.args.yd, call.args.y)
               sq == Add(Mul(dx, dx), Mul(dy, dy))
               r == call.ret.dist_err
               up == Add(r, Q(1, 10000))
           IN  /\ Ge(r, Zero)
               /\ Le(Mul(r, r), sq) /\ Gt(Mul(up, up), sq)
               /\ r = Zero <=> call.args.xd = call.args.x /\ call.args.yd = call.args.y

\* the goal (-1, 1) seen from the origin: sqrt(2)
C20_Witness ==
    /\ PoseErrorCall /\ call.args.xd = Num(-1) /\ call.args.yd = Num(1)
    /\ call.args.x = Zero /\ call.args.y = Zero
    /\ call.ret.dist_err = Q(14142, 10000)

----------------------------------------------------------------------------
(* The control cycle *)

CycleCall == call.op = "control_cycle"

\* C21: in every go-to-goal control cycle the four steps run in the order
\* odometry update, pose error, PID step, kinematics conversion, each on
\* the output of the one before it in the same cycle: the pose error is
\* computed from the pose this cycle's odometry update returned, the PID
\* step from this cycle's orientation error, and the wheel commands from
\* this cycle's PID output.
C21_CycleOrder ==
    CycleCall
        => LET made == call.ret
           IN  /\ Len(made) = 4
               /\ made[1].op = "get_robot_pose"
               /\ made[2].op = "get_pose_error"
               /\ made[3].op = "pid_controller"
               /\ made[4].op = "wheel_speed_commands"
               /\ \A i \in 1..4 : made[i].exc = "None"
               /\ made[1].args.x_old = call.args.x_old
               /\ made[1].args.y_old = call.args.y_old
               /\ made[1].args.phi_old = call.args.phi_old
               /\ made[2].args.x = made[1].ret.x
               /\ made[2].args.y = made[1].ret.y
               /\ made[2].args.phi = made[1].ret.phi
               /\ made[3].args.e = made[2].ret.phi_err
               /\ made[4].args.w_d = made[3].ret.output
               /\ pose = made[1].ret
               /\ cmd.wl_d = made[4].ret[1] /\ cmd.wr_d = made[4].ret[2]

\* a second cycle in which the robot moved and turned, the orientation
\* error was not 0 and the wheels were commanded to turn the robot
C21_Witness ==
    /\ CycleCall /\ steps >= 2
    /\ call.ret[1].ret.x # call.args.x_old \/ call.ret[1].ret.y # call.args.y_old
    /\ call.ret[1].ret.phi # call.args.phi_old
    /\ call.ret[3].args.e # Zero
    /\ call.ret[3].args.e_prev # Zero
    /\ cmd.wl_d # cmd.wr_d

----------------------------------------------------------------------------
(* What each step changes *)

PoseKeepers ==
    { "get_pose_error", "pid_controller", "wheel_speed_commands",
      "follow_wall_to_left", "follow_wall_to_left_obst",
      "improved_follow_wall_to_left_obst" }

PidKeepers ==
    { "get_robot_pose", "get_pose_error", "wheel_speed_commands",
      "follow_wall_to_left", "follow_wall_to_left_obst",
      "improved_follow_wall_to_left_obst" }

\* C22: the pose is changed only by the odometry update, once by each
\* update, and the PID state only by the PID step: the pose error, the PID
\* step, the wall-following behaviours and the kinematics conversion leave
\* the pose as it was; the odometry update, the pose error, the
\* wall-following behaviours and the kinematics conversion leave
\* (e_prev, e_acc) as they were.
C22_Frame ==
    [][/\ call'.op \in PoseKeepers => pose' = pose
       /\ call'.op \in PidKeepers => pid' = pid
       /\ call'.op = "get_robot_pose" => pose' = call'.ret
       /\ call'.op = "pid_controller" /\ call'.exc = "None"
            => pid' = [e_prev |-> call'.ret.e_prev, e_acc |-> call'.ret.e_acc]
       /\ pose' # pose => call'.op \in {"get_robot_pose", "control_cycle"}
       /\ pid' # pid => call'.op \in {"pid_controller", "control_cycle"}]_vars

\* a pose error computed after a PID step: the PID state of that step kept
C22_Witness ==
    /\ call.op = "get_pose_error" /\ steps >= 2
    /\ pid.e_prev = Q(15708, 10000) /\ pid.e_acc # Zero

----------------------------------------------------------------------------
(* Wall following: the two behaviours compared *)

\* C23: for the same kp, left-wall distance and desired distance the
\* obstacle-aware behaviour returns exactly the angular command of the
\* constant-speed behaviour, for every front distance, also below d_min
\* where the linear speed is 0 and the angular command is still issued.
C23_SameAngularCommand ==
    call.op = "follow_wall_to_left_obst"
        => call.ret.w_ref
             = follow_wall_to_left(call.args.kp, call.args.d_l,
                                   call.args.d_desired).w_ref

\* stopped in front of an obstacle and still turning towards the wall
C23_Witness ==
    /\ call.op = "follow_wall_to_left_obst" /\ Lt(call.args.d, d_min)
    /\ call.args.kp = Num(2)
    /\ call.ret.u_ref = Zero /\ call.ret.w_ref = Q(6, 100)
    /\ follow_wall_to_left(Num(2), call.args.d_l, call.args.d_desired).w_ref
         = Q(6, 100)

----------------------------------------------------------------------------
(* The PID step: the previous error *)

\* C24: after a PID step with dt > 0 the previous error of the PID state is
\* the error passed to that step, so the derivative term of a step is kd
\* times the difference between its error and the error of the step before
\* it, divided by its dt; the first step on the zero state uses previous
\* error 0.
C24_PreviousError ==
    [][call'.op = "pid_controller" /\ Gt(call'.args.delta_t, Zero)
         => LET a == call'.args
                r == call'.ret
            IN  /\ call'.exc = "None"
                /\ pid'.e_prev = a.e
                /\ a.e_prev = pid.e_prev
                /\ Sub(r.output, Add(Mul(a.kp, a.e), r.e_acc))
                     = Div(Mul(a.kd, Sub(a.e, pid.e_prev)), a.delta_t)
                /\ call.op = "pid_controller" /\ Gt(call.args.delta_t, Zero)
                     => Sub(r.output, Add(Mul(a.kp, a.e), r.e_acc))
                          = Div(Mul(a.kd, Sub(a.e, call.args.e)), a.delta_t)
                /\ pid = [e_prev |-> Zero, e_acc |-> Zero]
                     => Sub(r.output, Add(Mul(a.kp, a.e), r.e_acc))
                          = Div(Mul(a.kd, a.e), a.delta_t)]_vars

\* a second step whose derivative term is taken from the error of the first
C24_Witness ==
    /\ PidCall /\ steps >= 2 /\ Gt(call.args.delta_t, Zero)
    /\ call.args.kd # Zero
    /\ call.args.e = Num(-1) /\ call.args.e_prev = Q(15708, 10000)
    /\ pid.e_prev = Num(-1)

----------------------------------------------------------------------------
(* Odometry: the robot at rest *)

\* an odometry update with dt > 0 of a robot that does not move
Stationary ==
    /\ PoseCall /\ Gt(call.args.delta_t, Zero)
    /\ call.args.u = Zero /\ call.args.w = Zero

\* C25, as stated: for every prior pose with heading in (-pi, pi] and every
\* dt > 0, get_robot_pose with linear = 0 and angular = 0 returns the prior
\* pose.
C25_RestKeepsPose ==
    Stationary /\ Gt(call.args.phi_old, Neg(np_pi)) /\ Le(call.args.phi_old, np_pi)
        => call.ret = PoseBefore /\ pose = PoseBefore

\* C25, amended: for every prior pose with heading in [-pi, pi) and every
\* dt > 0, get_robot_pose with linear = 0 and angular = 0 returns the prior
\* pose, so stationary cycles leave such a pose as it is; a prior heading
\* of exactly pi is returned as -pi, with the same x and y.
C25_RestKeepsNormalizedPose ==
    Stationary
        => /\ Ge(call.args.phi_old, Neg(np_pi)) /\ Lt(call.args.phi_old, np_pi)
                => call.ret = PoseBefore /\ pose = PoseBefore
           /\ call.args.phi_old = np_pi
                => /\ call.ret.phi = Neg(np_pi)
                   /\ call.ret.x = call.args.x_old /\ call.ret.y = call.args.y_old

\* a second stationary update, of the heading -pi the first returned for pi
C25_Witness ==
    /\ Stationary /\ steps >= 2
    /\ call.args.phi_old = Neg(np_pi) /\ pose = PoseBefore

====
